---- MODULE Spec2Model ----
(***************************************************************************)
(* Model of js/src/frontend/GenerateReservedWords.py: the generator that   *)
(* turns a list of (index, word) pairs into the text of a decision         *)
(* procedure (a dispatch on JSRW_LENGTH(), then on JSRW_AT(column)), and   *)
(* of the emitted procedure itself, run on an input string.                *)
(*                                                                         *)
(* Characters are their codes (ord), words are sequences of codes, and an  *)
(* emitted line is a record of its indentation level and its tokens.       *)
(***************************************************************************)
EXTENDS Integers, Sequences, FiniteSets, TLC

(* Program constants: the opt dictionary of main(). *)
use_if_threshold == 3
char_tail_test_threshold == 4
initial_indent_level == 1

(* Bounds of the corpora and inputs the model draws. *)
AlphaSize == 2
MaxLen == 3
MaxWords == 3
LongWords == 2
WideAlpha == 4
WideLen == 2
WideWords == 4
MaxEdits == 1
SelectAlpha == 5
SelectLen == 2
SelectWords == 4

(* The long family has words one and two characters longer than the tail   *)
(* threshold, so that a leaf with more than char_tail_test_threshold       *)
(* unprocessed columns exists below the root and at it.                    *)
LongMin == char_tail_test_threshold + 1
LongMax == char_tail_test_threshold + 2

(***************************************************************************)
(* Emitted lines.  line(opt, s) writes indent_level * 4 spaces and s; the  *)
(* model keeps the level and the tokens of s.  A field a line does not     *)
(* have holds NoNum, NoChar, <<>>.                                         *)
(***************************************************************************)
NoNum == 0 - 1
NoChar == 0

Line(ind, kind, num, ch, word, conds) ==
    [ind |-> ind, kind |-> kind, num |-> num, ch |-> ch, word |-> word, conds |-> conds]

Indent(level) == level + 1

\* a dedent that is forgotten
DedentForgotten(level) == level

Dedent(level) == level - 1

(***************************************************************************)
(* Pure helpers of the generator.                                          *)
(***************************************************************************)
Item(index, word) == [index |-> index, word |-> word]

\* word[column], columns are 0-based
CharAt(word, column) == word[column + 1]

SetMin(S) == CHOOSE x \in S : \A y \in S : x <= y

RECURSIVE SortedSeq(_)
SortedSeq(S) ==
    IF S = {} THEN <<>>
    ELSE LET m == SetMin(S) IN <<m>> \o SortedSeq(S \ {m})

\* a span that leaves out the "+ 1"
SpanAndCountAtShort(reserved_word_list, column) ==
    LET chars == SortedSeq({CharAt(reserved_word_list[k].word, column) :
                            k \in 1..Len(reserved_word_list)})
    IN  [span |-> chars[Len(chars)] - chars[1], count |-> Len(chars)]

\* span_and_count_at: chars[-1] - chars[0] + 1, len(chars) of the sorted keys
SpanAndCountAt(reserved_word_list, column) ==
    LET chars == SortedSeq({CharAt(reserved_word_list[k].word, column) :
                            k \in 1..Len(reserved_word_list)})
    IN  [span |-> chars[Len(chars)] - chars[1] + 1, count |-> Len(chars)]

\* the result of the early return at a column of span 1
SpanOneChoice(index) == [index |-> 1, use_if |-> TRUE, err |-> "none"]

\* "if index == 0 or min > value: min = value; min_index = index"
KeepMin(index, min, min_index, value) ==
    IF index = 0 \/ min > value
    THEN [min |-> value, at |-> index]
    ELSE [min |-> min, at |-> min_index]

\* the choice after the scan
FinalChoice(min_count, min_count_index, min_span_index) ==
    IF min_count <= use_if_threshold
    THEN [index |-> min_count_index, use_if |-> TRUE, err |-> "none"]
    ELSE [index |-> min_span_index, use_if |-> FALSE, err |-> "none"]

RECURSIVE ScanColumns(_, _, _, _, _)
ScanColumns(reserved_word_list, columns, unprocessed_columns, index, acc) ==
    IF index >= unprocessed_columns
    THEN FinalChoice(acc.min_count, acc.min_count_index, acc.min_span_index)
    ELSE LET sc == SpanAndCountAt(reserved_word_list, columns[index + 1])
         IN  IF sc.span = 0
             THEN [index |-> 0, use_if |-> FALSE, err |-> "assert_span"]
             ELSE IF (sc.span = 1) # (sc.count = 1)
             THEN [index |-> 0, use_if |-> FALSE, err |-> "assert_count"]
             ELSE IF sc.span = 1
             THEN SpanOneChoice(index)
             ELSE LET s == KeepMin(index, acc.min_span, acc.min_span_index, sc.span)
                      c == KeepMin(index, acc.min_count, acc.min_count_index, sc.count)
                  IN  ScanColumns(reserved_word_list, columns, unprocessed_columns,
                                  index + 1,
                                  [min_count |-> c.min, min_count_index |-> c.at,
                                   min_span |-> s.min, min_span_index |-> s.at])

OptimalSwitchColumn(reserved_word_list, columns, unprocessed_columns) ==
    ScanColumns(reserved_word_list, columns, unprocessed_columns, 0,
                [min_count |-> 0, min_count_index |-> 0,
                 min_span |-> 0, min_span_index |-> 0])

\* the keys of a dict filled in list order, in insertion order
RECURSIVE InsertionKeys(_, _)
InsertionKeys(keys, seen) ==
    IF keys = <<>> THEN <<>>
    ELSE IF Head(keys) \in seen THEN InsertionKeys(Tail(keys), seen)
    ELSE <<Head(keys)>> \o InsertionKeys(Tail(keys), seen \cup {Head(keys)})

\* the items of the dict left in insertion order
UnsortedKeys(keys) == keys

\* sorted(dict.items()): by key
SortedKeys(keys) == SortedSeq({keys[k] : k \in 1..Len(keys)})

SplitListPerColumn(reserved_word_list, column) ==
    LET key(item) == CharAt(item.word, column)
        keys == SortedKeys(InsertionKeys([k \in 1..Len(reserved_word_list) |->
                                            key(reserved_word_list[k])], {}))
    IN  [g \in 1..Len(keys) |->
            [key |-> keys[g],
             list |-> SelectSeq(reserved_word_list, LAMBDA item : key(item) = keys[g])]]

SplitListPerLength(reserved_word_list) ==
    LET key(item) == Len(item.word)
        keys == SortedKeys(InsertionKeys([k \in 1..Len(reserved_word_list) |->
                                            key(reserved_word_list[k])], {}))
    IN  [g \in 1..Len(keys) |->
            [key |-> keys[g],
             list |-> SelectSeq(reserved_word_list, LAMBDA item : key(item) = keys[g])]]

\* the columns passed down ignored: always range(0, unprocessed_columns)
DefaultColumnsAlways(columns, unprocessed_columns) ==
    [k \in 1..unprocessed_columns |-> k - 1]

\* "if not columns: columns = range(0, unprocessed_columns)"
DefaultColumns(columns, unprocessed_columns) ==
    IF columns = <<>> THEN [k \in 1..unprocessed_columns |-> k - 1] ELSE columns

\* the chosen column left in place
RemoveColumnForgotten(columns, optimal_column_index, unprocessed_columns) == columns

\* "columns[optimal_column_index] = columns[unprocessed_columns - 1]" on a copy
RemoveColumn(columns, optimal_column_index, unprocessed_columns) ==
    [columns EXCEPT ![optimal_column_index + 1] = columns[unprocessed_columns]]

\* conditions that compare with the character at the loop position, not at
\* the column
LeafCondsByPosition(word, columns, unprocessed_columns) ==
    [k \in 1..unprocessed_columns |->
        [column |-> columns[k], ch |-> CharAt(word, k - 1)]]

\* the conditions of the leaf test: one per unprocessed column, in columns' order
LeafConds(word, columns, unprocessed_columns) ==
    [k \in 1..unprocessed_columns |->
        [column |-> columns[k], ch |-> CharAt(word, columns[k])]]

\* a leaf that guesses from char_tail_test_threshold columns on (">=" for ">")
LeafLinesGuessEarly(level, unprocessed_columns, item, columns) ==
    IF unprocessed_columns = 0
    THEN <<Line(level, "got_match", item.index, NoChar, item.word, <<>>)>>
    ELSE IF unprocessed_columns >= char_tail_test_threshold
    THEN <<Line(level, "test_guess", item.index, NoChar, item.word, <<>>)>>
    ELSE <<Line(level, "if_conds", NoNum, NoChar, <<>>,
                [k \in 1..unprocessed_columns |->
                    [column |-> columns[k], ch |-> CharAt(item.word, columns[k])]]),
           Line(level + 1, "got_match", item.index, NoChar, item.word, <<>>),
           Line(level, "close", NoNum, NoChar, <<>>, <<>>),
           Line(level, "no_match", NoNum, NoChar, <<>>, <<>>)>>

\* a leaf whose conjunction is not followed by JSRW_NO_MATCH()
LeafLinesNoMatchForgotten(level, unprocessed_columns, item, columns) ==
    IF unprocessed_columns = 0
    THEN <<Line(level, "got_match", item.index, NoChar, item.word, <<>>)>>
    ELSE IF unprocessed_columns > char_tail_test_threshold
    THEN <<Line(level, "test_guess", item.index, NoChar, item.word, <<>>)>>
    ELSE <<Line(level, "if_conds", NoNum, NoChar, <<>>,
                [k \in 1..unprocessed_columns |->
                    [column |-> columns[k], ch |-> CharAt(item.word, columns[k])]]),
           Line(level + 1, "got_match", item.index, NoChar, item.word, <<>>),
           Line(level, "close", NoNum, NoChar, <<>>, <<>>)>>

\* the lines of a node with one candidate
LeafLines(level, unprocessed_columns, item, columns) ==
    IF unprocessed_columns = 0
    THEN <<Line(level, "got_match", item.index, NoChar, item.word, <<>>)>>
    ELSE IF unprocessed_columns > char_tail_test_threshold
    THEN <<Line(level, "test_guess", item.index, NoChar, item.word, <<>>)>>
    ELSE <<Line(level, "if_conds", NoNum, NoChar, <<>>,
                LeafConds(item.word, columns, unprocessed_columns)),
           Line(Indent(level), "got_match", item.index, NoChar, item.word, <<>>),
           Line(Dedent(Indent(level)), "close", NoNum, NoChar, <<>>, <<>>),
           Line(Dedent(Indent(level)), "no_match", NoNum, NoChar, <<>>, <<>>)>>

\* a header that writes each word's index beside it
HeaderLinesWithIndex(level, reserved_word_list) ==
    <<Line(level, "comment_open", NoNum, NoChar, <<>>, <<>>),
      Line(level, "comment_count", Len(reserved_word_list), NoChar, <<>>, <<>>)>>
    \o [k \in 1..Len(reserved_word_list) |->
          Line(level, "comment_word", reserved_word_list[k].index, NoChar,
               reserved_word_list[k].word, <<>>)]
    \o <<Line(level, "comment_close", NoNum, NoChar, <<>>, <<>>)>>

\* the header comment of generate_switch
HeaderLines(level, reserved_word_list) ==
    <<Line(level, "comment_open", NoNum, NoChar, <<>>, <<>>),
      Line(level, "comment_count", Len(reserved_word_list), NoChar, <<>>, <<>>)>>
    \o [k \in 1..Len(reserved_word_list) |->
          Line(level, "comment_word", NoNum, NoChar, reserved_word_list[k].word, <<>>)]
    \o <<Line(level, "comment_close", NoNum, NoChar, <<>>, <<>>)>>

\* "if len(list_per_length) < opt['use_if_threshold']: use_if = True"
LengthUseIf(list_per_length) == Len(list_per_length) < use_if_threshold

(***************************************************************************)
(* State.                                                                  *)
(*   reserved_word_list  the corpus handed to generate_switch              *)
(*   output, indent_level  opt["output"] (the lines written so far) and    *)
(*                       opt["indent_level"]                               *)
(*   gs                  the frame of generate_switch: its position, its   *)
(*                       list_per_length, use_if and loop index            *)
(*   stack               the frames of generate_letter_switch, innermost   *)
(*                       last; entry_level records the level on entry      *)
(*   error               the exception that ended generation, or "none"    *)
(*   prior_output, run   the output of the previous run over the same      *)
(*                       pairs in another order, and the run's number      *)
(*   input, pc, tested, result  the emitted procedure run on input: the    *)
(*                       line about to execute (0: not started), the       *)
(*                       columns tested by the blocks entered so far, in   *)
(*                       order, and the primitive that ended it            *)
(***************************************************************************)
VARIABLES reserved_word_list, output, indent_level, gs, stack, error,
          prior_output, run, input, pc, tested, result

vars == <<reserved_word_list, output, indent_level, gs, stack, error,
          prior_output, run, input, pc, tested, result>>

genVars == <<reserved_word_list, output, indent_level, gs, stack, error,
             prior_output, run>>

execVars == <<input, pc, tested, result>>

NoResult == [kind |-> "none", index |-> NoNum]

GsStart == [pc |-> "start", list_per_length |-> <<>>, use_if |-> FALSE, i |-> 0]

Frame(unprocessed_columns, list, columns, level) ==
    [pc |-> "entry", unprocessed_columns |-> unprocessed_columns,
     reserved_word_list |-> list, columns |-> columns,
     optimal_column_index |-> NoNum, optimal_column |-> NoNum,
     use_if |-> FALSE, list_per_column |-> <<>>, i |-> 0, entry_level |-> level]

Top == stack[Len(stack)]

Pop == SubSeq(stack, 1, Len(stack) - 1)

(***************************************************************************)
(* The corpora and inputs drawn.                                           *)
(***************************************************************************)
WordsOf(alpha, lo, hi) == UNION {[1..l -> 1..alpha] : l \in lo..hi}

SeqsUpTo(W, k) == UNION {[1..m -> W] : m \in 0..k}

RECURSIVE WordNum(_)
WordNum(w) == IF w = <<>> THEN 0 ELSE 10 * WordNum(SubSeq(w, 1, Len(w) - 1)) + w[Len(w)]

\* sets of words, written in one fixed order
Increasing(ws) == \A a, b \in 1..Len(ws) : a < b => WordNum(ws[a]) < WordNum(ws[b])

\* main() hands over the reader's list: the index is the position in it
MakeList(ws) == [k \in 1..Len(ws) |-> Item(k - 1, ws[k])]

SmallCorpora == SeqsUpTo(WordsOf(AlphaSize, 1, MaxLen), MaxWords)

LongCorpora == {ws \in SeqsUpTo(WordsOf(AlphaSize, LongMin, LongMax), LongWords) : Increasing(ws)}

WideCorpora == {ws \in SeqsUpTo(WordsOf(WideAlpha, 1, WideLen), WideWords) : Increasing(ws)}

CorpusWords == {reserved_word_list[k].word : k \in 1..Len(reserved_word_list)}

CorpusChars == UNION {{w[k] : k \in 1..Len(w)} : w \in CorpusWords} \cup (1..AlphaSize)

\* strings differing from w in at most MaxEdits positions
Edits(w) ==
    {s \in [1..Len(w) -> CorpusChars] :
        Cardinality({k \in 1..Len(w) : s[k] # w[k]}) <= MaxEdits}

Inputs == WordsOf(AlphaSize, 0, MaxLen) \cup UNION {Edits(w) : w \in CorpusWords}

InitWith(corpora) ==
    /\ reserved_word_list \in {MakeList(ws) : ws \in corpora}
    /\ output = <<>>
    /\ indent_level = initial_indent_level
    /\ gs = GsStart
    /\ stack = <<>>
    /\ error = "none"
    /\ prior_output = <<>>
    /\ run = 1
    /\ input = <<>>
    /\ pc = 0
    /\ tested = <<>>
    /\ result = NoResult

Init == InitWith(SmallCorpora \cup LongCorpora \cup WideCorpora)

(***************************************************************************)
(* generate_switch                                                         *)
(***************************************************************************)
Abort(why) ==
    /\ gs' = [gs EXCEPT !.pc = "aborted"]
    /\ error' = why
    /\ stack' = <<>>
    /\ UNCHANGED <<output, indent_level>>

\* lines 159-178: the assert, the header, the split, the switch line
GenerateSwitch ==
    /\ gs.pc = "start"
    /\ IF Len(reserved_word_list) = 0
       THEN Abort("assert_empty")
       ELSE LET list_per_length == SplitListPerLength(reserved_word_list)
                use_if == LengthUseIf(list_per_length)
            IN  /\ output' = output \o HeaderLines(indent_level, reserved_word_list)
                       \o (IF use_if THEN <<>>
                           ELSE <<Line(indent_level, "switch_len", NoNum, NoChar, <<>>, <<>>)>>)
                /\ gs' = [pc |-> "loop", list_per_length |-> list_per_length,
                          use_if |-> use_if, i |-> 1]
                /\ UNCHANGED <<indent_level, stack, error>>
    /\ UNCHANGED <<reserved_word_list, prior_output, run>>
    /\ UNCHANGED execVars

\* lines 180-187: the if/case line of the next length, indent, the call
LengthCase ==
    /\ gs.pc = "loop"
    /\ gs.i <= Len(gs.list_per_length)
    /\ LET g == gs.list_per_length[gs.i]
       IN  /\ output' = Append(output,
                  Line(indent_level, IF gs.use_if THEN "if_len" ELSE "case_len",
                       g.key, NoChar, <<>>, <<>>))
           /\ indent_level' = Indent(indent_level)
           /\ stack' = <<Frame(g.key, g.list, <<>>, Indent(indent_level))>>
    /\ gs' = [gs EXCEPT !.pc = "call"]
    /\ UNCHANGED <<reserved_word_list, error, prior_output, run>>
    /\ UNCHANGED execVars

\* lines 188-191: back from the call: dedent, the closing brace of an if
LengthReturn ==
    /\ gs.pc = "call"
    /\ stack = <<>>
    /\ indent_level' = Dedent(indent_level)
    /\ output' = IF gs.use_if
                 THEN Append(output, Line(Dedent(indent_level), "close", NoNum, NoChar, <<>>, <<>>))
                 ELSE output
    /\ gs' = [gs EXCEPT !.pc = "loop", !.i = gs.i + 1]
    /\ UNCHANGED <<reserved_word_list, stack, error, prior_output, run>>
    /\ UNCHANGED execVars

\* lines 193-195: the closing brace of the switch, the final JSRW_NO_MATCH()
GenerateSwitchEnd ==
    /\ gs.pc = "loop"
    /\ gs.i > Len(gs.list_per_length)
    /\ output' = output
           \o (IF gs.use_if THEN <<>>
               ELSE <<Line(indent_level, "close", NoNum, NoChar, <<>>, <<>>)>>)
           \o <<Line(indent_level, "no_match", NoNum, NoChar, <<>>, <<>>)>>
    /\ gs' = [gs EXCEPT !.pc = "done"]
    /\ UNCHANGED <<reserved_word_list, indent_level, stack, error, prior_output, run>>
    /\ UNCHANGED execVars

(***************************************************************************)
(* generate_letter_switch, one frame of the stack per call                 *)
(***************************************************************************)
\* lines 83-107: a node with one candidate writes its leaf and returns
LetterSwitchLeaf ==
    /\ stack # <<>>
    /\ Top.pc = "entry"
    /\ Len(Top.reserved_word_list) = 1
    /\ LET n == Top.unprocessed_columns
           columns == DefaultColumns(Top.columns, n)
           lines == LeafLines(indent_level, n, Top.reserved_word_list[1], columns)
       IN  /\ output' = output \o lines
           /\ indent_level' = lines[Len(lines)].ind
    /\ stack' = Pop
    /\ UNCHANGED <<reserved_word_list, gs, error, prior_output, run>>
    /\ UNCHANGED execVars

\* lines 109-123: the column chosen, removed from the copy; the split; the
\* switch line
LetterSwitchDispatch ==
    /\ stack # <<>>
    /\ Top.pc = "entry"
    /\ Len(Top.reserved_word_list) > 1
    /\ LET n == Top.unprocessed_columns
           columns == DefaultColumns(Top.columns, n)
           choice == OptimalSwitchColumn(Top.reserved_word_list, columns, n)
       IN  IF n = 0
           THEN Abort("assert_columns")
           ELSE IF choice.err # "none"
           THEN Abort(choice.err)
           ELSE IF choice.index + 1 > Len(columns)
           THEN Abort("index_error")
           ELSE LET optimal_column == columns[choice.index + 1]
                    list_per_column ==
                        SplitListPerColumn(Top.reserved_word_list, optimal_column)
                IN  /\ output' = IF choice.use_if THEN output
                                 ELSE Append(output, Line(indent_level, "switch_at",
                                             optimal_column, NoChar, <<>>, <<>>))
                    /\ stack' = [stack EXCEPT ![Len(stack)] =
                          [Top EXCEPT !.pc = "loop",
                                      !.columns = RemoveColumn(columns, choice.index, n),
                                      !.optimal_column_index = choice.index,
                                      !.optimal_column = optimal_column,
                                      !.use_if = choice.use_if,
                                      !.list_per_column = list_per_column,
                                      !.i = 1]]
                    /\ UNCHANGED <<indent_level, gs, error>>
    /\ UNCHANGED <<reserved_word_list, prior_output, run>>
    /\ UNCHANGED execVars

\* lines 125-135: the if/case line of the next character, indent, the call
ColumnCase ==
    /\ stack # <<>>
    /\ Top.pc = "loop"
    /\ Top.i <= Len(Top.list_per_column)
    /\ LET g == Top.list_per_column[Top.i]
       IN  /\ output' = Append(output,
                  IF Top.use_if
                  THEN Line(indent_level, "if_at", Top.optimal_column, g.key, <<>>, <<>>)
                  ELSE Line(indent_level, "case_at", NoNum, g.key, <<>>, <<>>))
           /\ indent_level' = Indent(indent_level)
           /\ stack' = Append([stack EXCEPT ![Len(stack)] = [Top EXCEPT !.pc = "ret"]],
                              Frame(Top.unprocessed_columns - 1, g.list, Top.columns,
                                    Indent(indent_level)))
    /\ UNCHANGED <<reserved_word_list, gs, error, prior_output, run>>
    /\ UNCHANGED execVars

\* lines 136-139: back from the call: dedent, the closing brace of an if
ColumnReturn ==
    /\ stack # <<>>
    /\ Top.pc = "ret"
    /\ indent_level' = Dedent(indent_level)
    /\ output' = IF Top.use_if
                 THEN Append(output, Line(Dedent(indent_level), "close", NoNum, NoChar, <<>>, <<>>))
                 ELSE output
    /\ stack' = [stack EXCEPT ![Len(stack)] = [Top EXCEPT !.pc = "loop", !.i = Top.i + 1]]
    /\ UNCHANGED <<reserved_word_list, gs, error, prior_output, run>>
    /\ UNCHANGED execVars

\* lines 141-144: the closing brace of the switch, JSRW_NO_MATCH(), return
LetterSwitchEnd ==
    /\ stack # <<>>
    /\ Top.pc = "loop"
    /\ Top.i > Len(Top.list_per_column)
    /\ output' = output
           \o (IF Top.use_if THEN <<>>
               ELSE <<Line(indent_level, "close", NoNum, NoChar, <<>>, <<>>)>>)
           \o <<Line(indent_level, "no_match", NoNum, NoChar, <<>>, <<>>)>>
    /\ stack' = Pop
    /\ UNCHANGED <<reserved_word_list, indent_level, gs, error, prior_output, run>>
    /\ UNCHANGED execVars

(***************************************************************************)
(* A second run of main() over the same pairs in another order: a fresh    *)
(* opt, the output of the first run kept for comparison.                   *)
(***************************************************************************)
Regenerate ==
    /\ gs.pc = "done"
    /\ run = 1
    /\ pc = 0
    /\ \E p \in Permutations(1..Len(reserved_word_list)) :
          reserved_word_list' = [k \in 1..Len(reserved_word_list) |-> reserved_word_list[p[k]]]
    /\ prior_output' = output
    /\ output' = <<>>
    /\ indent_level' = initial_indent_level
    /\ gs' = GsStart
    /\ stack' = <<>>
    /\ error' = "none"
    /\ run' = 2
    /\ UNCHANGED execVars

(***************************************************************************)
(* The emitted procedure, run as C runs it: the lines in order, an if      *)
(* whose condition fails skipping to after its closing brace, a switch     *)
(* jumping to the case label of its value or, without one, to after its    *)
(* closing brace, a case label or closing brace passed through, and        *)
(* JSRW_GOT_MATCH, JSRW_TEST_GUESS and JSRW_NO_MATCH ending the run.       *)
(* JSRW_AT past the end of the input reads an arbitrary character.         *)
(***************************************************************************)
IsOpen(l) == l.kind \in {"switch_len", "switch_at", "if_len", "if_at", "if_conds"}

IsSwitch(l) == l.kind \in {"switch_len", "switch_at"}

IsLabel(l) == l.kind \in {"case_len", "case_at"}

LabelValue(l) == IF l.kind = "case_len" THEN l.num ELSE l.ch

RECURSIVE ScanClose(_, _, _)
ScanClose(out, q, depth) ==
    IF q > Len(out) THEN q
    ELSE IF IsOpen(out[q]) THEN ScanClose(out, q + 1, depth + 1)
    ELSE IF out[q].kind = "close"
    THEN IF depth = 1 THEN q ELSE ScanClose(out, q + 1, depth - 1)
    ELSE ScanClose(out, q + 1, depth)

\* the line of the brace closing the block opened at line p
MatchClose(out, p) == ScanClose(out, p + 1, 1)

\* the labels of the switch at line p: those in its block and in no inner switch
LabelsOf(out, p) ==
    {q \in (p + 1)..(MatchClose(out, p) - 1) :
        /\ q <= Len(out)
        /\ IsLabel(out[q])
        /\ \A r \in (p + 1)..(q - 1) : IsSwitch(out[r]) => MatchClose(out, r) < q}

\* where "switch (v)" at line p continues
SwitchTarget(out, p, v) ==
    LET hits == {q \in LabelsOf(out, p) : LabelValue(out[q]) = v}
    IN  IF hits = {} THEN MatchClose(out, p) + 1 ELSE SetMin(hits) + 1

\* the values JSRW_AT(column) can yield
AtValues(column) ==
    IF column < Len(input) THEN {input[column + 1]} ELSE CorpusChars

\* whether "switch (v)" at line p has a case label for v
SwitchHit(out, p, v) == \E q \in LabelsOf(out, p) : LabelValue(out[q]) = v

\* whether a conjunction holds, for one choice vals of the values read
CondsHold(conds, vals) == \A k \in 1..Len(conds) : vals[k] = conds[k].ch

CondsColumns(conds) == [k \in 1..Len(conds) |-> conds[k].column]

IsComment(l) ==
    l.kind \in {"comment_open", "comment_count", "comment_word", "comment_close"}

\* the first line from q on that is not a comment line: comments do not execute
RECURSIVE SkipComments(_, _)
SkipComments(out, q) ==
    IF q <= Len(out) /\ IsComment(out[q]) THEN SkipComments(out, q + 1) ELSE q

Goto(q, columns) ==
    [pc |-> SkipComments(output, q), tested |-> tested \o columns, result |-> NoResult]

End(kind, index) == [pc |-> pc, tested |-> tested, result |-> [kind |-> kind, index |-> index]]

\* the outcomes of executing line pc
Outcomes(l) ==
    CASE IsComment(l) \/ l.kind \in {"close", "case_len", "case_at"} ->
            {Goto(pc + 1, <<>>)}
      [] l.kind = "if_len" ->
            {Goto(IF Len(input) = l.num THEN pc + 1 ELSE MatchClose(output, pc) + 1, <<>>)}
      [] l.kind = "switch_len" ->
            {Goto(SwitchTarget(output, pc, Len(input)), <<>>)}
      [] l.kind = "if_at" ->
            {IF v = l.ch THEN Goto(pc + 1, <<l.num>>)
                          ELSE Goto(MatchClose(output, pc) + 1, <<>>) :
                v \in AtValues(l.num)}
      [] l.kind = "switch_at" ->
            {Goto(SwitchTarget(output, pc, v),
                  IF SwitchHit(output, pc, v) THEN <<l.num>> ELSE <<>>) :
                v \in AtValues(l.num)}
      [] l.kind = "if_conds" ->
            {IF CondsHold(l.conds, vals) THEN Goto(pc + 1, CondsColumns(l.conds))
                                         ELSE Goto(MatchClose(output, pc) + 1, <<>>) :
                vals \in {f \in [1..Len(l.conds) -> CorpusChars] :
                             \A k \in 1..Len(l.conds) : f[k] \in AtValues(l.conds[k].column)}}
      [] l.kind = "got_match" -> {End("got_match", l.num)}
      [] l.kind = "test_guess" -> {End("test_guess", l.num)}
      [] l.kind = "no_match" -> {End("no_match", NoNum)}

ExecStart ==
    /\ gs.pc = "done"
    /\ pc = 0
    /\ input' \in Inputs
    /\ pc' = SkipComments(output, 1)
    /\ UNCHANGED <<tested, result>>
    /\ UNCHANGED genVars

ExecStep ==
    /\ pc >= 1
    /\ result = NoResult
    /\ \E o \in (IF pc > Len(output) THEN {End("fell_off", NoNum)} ELSE Outcomes(output[pc])) :
          /\ pc' = o.pc
          /\ tested' = o.tested
          /\ result' = o.result
    /\ UNCHANGED input
    /\ UNCHANGED genVars

Next ==
    \/ GenerateSwitch
    \/ LengthCase
    \/ LengthReturn
    \/ GenerateSwitchEnd
    \/ LetterSwitchLeaf
    \/ LetterSwitchDispatch
    \/ ColumnCase
    \/ ColumnReturn
    \/ LetterSwitchEnd
    \/ ExecStart
    \/ ExecStep

Spec == Init /\ [][Next]_vars

(***************************************************************************)
(* Generation alone, over the corpora with enough distinct characters per  *)
(* column for the span and the count of a column to differ.                *)
(***************************************************************************)
SelectCorpora ==
    {ws \in SeqsUpTo(WordsOf(SelectAlpha, SelectLen, SelectLen), SelectWords) : Increasing(ws)}

InitSelect == InitWith(SelectCorpora)

NextGenerate ==
    \/ GenerateSwitch
    \/ LengthCase
    \/ LengthReturn
    \/ GenerateSwitchEnd
    \/ LetterSwitchLeaf
    \/ LetterSwitchDispatch
    \/ ColumnCase
    \/ ColumnReturn
    \/ LetterSwitchEnd

SpecSelect == InitSelect /\ [][NextGenerate]_vars

(***************************************************************************)
(* Generation twice over the same pairs, the second time in any order.     *)
(***************************************************************************)
InitOrder == InitWith(SmallCorpora)

NextOrder ==
    \/ GenerateSwitch
    \/ LengthCase
    \/ LengthReturn
    \/ GenerateSwitchEnd
    \/ LetterSwitchLeaf
    \/ LetterSwitchDispatch
    \/ ColumnCase
    \/ ColumnReturn
    \/ LetterSwitchEnd
    \/ Regenerate

SpecOrder == InitOrder /\ [][NextOrder]_vars

(***************************************************************************)
(* Properties.                                                             *)
(***************************************************************************)
\* the corpus has no two entries with the same text
DistinctWords ==
    \A a, b \in 1..Len(reserved_word_list) :
        a # b => reserved_word_list[a].word # reserved_word_list[b].word

Finished == result # NoResult

\* the columns of the input that no block entered so far has tested
Untested == (0..(Len(input) - 1)) \ {tested[k] : k \in 1..Len(tested)}

\* the corpus entries of the length of the input that agree with it on every
\* column tested so far: the candidates of the node the run has reached
Candidates ==
    {k \in 1..Len(reserved_word_list) :
        /\ Len(reserved_word_list[k].word) = Len(input)
        /\ \A c \in 1..Len(tested) :
              tested[c] < Len(input)
              /\ reserved_word_list[k].word[tested[c] + 1] = input[tested[c] + 1]}

\* C1: for a corpus of pairwise-distinct non-empty words, the emitted
\* procedure run on the characters of the word of index i ends in
\* JSRW_GOT_MATCH(i) or JSRW_TEST_GUESS(i): never in JSRW_NO_MATCH, never with
\* another index, and never by running off the end of the emitted lines.
C1_WordIsAccepted ==
    (Finished /\ DistinctWords) =>
        \A k \in 1..Len(reserved_word_list) :
            input = reserved_word_list[k].word =>
                /\ result.kind \in {"got_match", "test_guess"}
                /\ result.index = reserved_word_list[k].index

\* C1's case: a word of a corpus of several words, found after at least one
\* column dispatch.
C1_Witness ==
    /\ Finished
    /\ DistinctWords
    /\ Len(reserved_word_list) >= 2
    /\ input \in CorpusWords
    /\ result.kind = "got_match"
    /\ Len(tested) >= 2

\* C2: for a corpus of pairwise-distinct words, an input that is no corpus
\* word but has the length of one never ends in JSRW_GOT_MATCH: it ends in
\* JSRW_NO_MATCH or in JSRW_TEST_GUESS, and where it ends in JSRW_TEST_GUESS(i)
\* the run has reached a node whose only candidate is the entry of index i and
\* more than char_tail_test_threshold columns are still unread.
C2_NonWordIsNotMatched ==
    (/\ Finished
     /\ DistinctWords
     /\ input \notin CorpusWords
     /\ \E w \in CorpusWords : Len(w) = Len(input)) =>
        /\ result.kind \in {"no_match", "test_guess"}
        /\ result.kind = "test_guess" =>
              /\ Cardinality(Untested) > char_tail_test_threshold
              /\ \E k \in Candidates :
                    Candidates = {k} /\ reserved_word_list[k].index = result.index

\* C2's case: a string that is no corpus word is wrongly guessed to be one.
C2_Witness ==
    /\ Finished
    /\ DistinctWords
    /\ input \notin CorpusWords
    /\ result.kind = "test_guess"
    /\ Len(tested) >= 1

\* the columns tested by the dispatches on the path to the innermost call
PathColumns == {stack[j].optimal_column : j \in 1..(Len(stack) - 1)}

\* C3: for a corpus of pairwise-distinct words, at every call of
\* generate_letter_switch the first unprocessed_columns entries of columns
\* are pairwise distinct and are exactly the columns no dispatch on the path
\* to the node has tested, the dispatches on the path test pairwise different
\* columns, and no run of the emitted procedure enters two blocks (column
\* dispatches or the leaf conjunction) that test the same column.
C3_ColumnsTestedOnce ==
    DistinctWords =>
        /\ (stack # <<>> /\ Top.pc = "entry") =>
              LET n == Top.unprocessed_columns
                  columns == DefaultColumns(Top.columns, n)
                  first == {columns[k] : k \in 1..n}
                  length == Len(Top.reserved_word_list[1].word)
              IN  /\ n <= Len(columns)
                  /\ Cardinality(first) = n
                  /\ first = (0..(length - 1)) \ PathColumns
                  /\ Cardinality(PathColumns) = Len(stack) - 1
        /\ \A a, b \in 1..Len(tested) : a # b => tested[a] # tested[b]

\* C3's case: a call below two dispatches whose columns are no longer in
\* their initial order, or a run that has entered three tests.
C3_Witness ==
    /\ DistinctWords
    /\ \/ /\ Len(stack) >= 3
          /\ Top.pc = "entry"
          /\ Top.columns # [k \in 1..Len(Top.columns) |-> k - 1]
       \/ Len(tested) >= 3

\* the number of lines of the header comment
HeaderLen == Len(reserved_word_list) + 3

\* the lines after the header comment
Body(out) == SubSeq(out, HeaderLen + 1, Len(out))

\* how many lines of the header of out name the word w
HeaderCount(out, w) ==
    Cardinality({q \in 1..HeaderLen : out[q].kind = "comment_word" /\ out[q].word = w})

\* C4 as stated: generating again from the same pairs in any other order
\* yields the same output, line for line, header comment included.
C4_SameOutputAnyOrder ==
    (run = 2 /\ gs.pc = "done") => output = prior_output

\* C4 as amended: generating again from the same pairs in any other order
\* yields the same lines after the header comment, and a header comment with
\* the same first and last lines and the same words, in the order of the
\* input list.
C4_SameBodyAnyOrder ==
    (run = 2 /\ gs.pc = "done") =>
        /\ Body(output) = Body(prior_output)
        /\ Len(output) = Len(prior_output)
        /\ \A q \in {1, 2, HeaderLen} : output[q] = prior_output[q]
        /\ \A w \in CorpusWords : HeaderCount(output, w) = HeaderCount(prior_output, w)
        /\ \A k \in 1..Len(reserved_word_list) :
              output[k + 2].word = reserved_word_list[k].word

\* C4's case: a second run over three words in another order, whose output
\* differs from the first run's.
C4_Witness ==
    /\ run = 2
    /\ gs.pc = "done"
    /\ Len(reserved_word_list) >= 3
    /\ output # prior_output

\* the frame on top of the stack has just chosen its column
Dispatched == stack # <<>> /\ Top.pc = "loop" /\ Top.i = 1

\* the columns the frame on top of the stack was called with
EntryColumns ==
    [Top.columns EXCEPT ![Top.optimal_column_index + 1] = Top.optimal_column]

\* span and count of the k-th column (from 0) in the scan order of the frame
ScanAt(k) == SpanAndCountAt(Top.reserved_word_list, EntryColumns[k + 1])

Scanned == 0..(Top.unprocessed_columns - 1)

SpanOneIndexes == {k \in Scanned : ScanAt(k).span = 1}

\* C5 as stated: at a node with several candidates where some unprocessed
\* column has span 1, the first such column in scan order is selected, in
\* if-chain mode, and the dispatch has exactly one branch.
C5_SharedColumnFirst ==
    (Dispatched /\ SpanOneIndexes # {}) =>
        /\ Top.optimal_column_index = SetMin(SpanOneIndexes)
        /\ Top.use_if
        /\ Len(Top.list_per_column) = 1

\* C6 as stated: whenever generation aborts, nothing has been written.
C6_AbortWritesNothing ==
    gs.pc = "aborted" => output = <<>>

\* C6 as amended: an empty corpus aborts with nothing written; the only other
\* aborts are at a node with several candidates of a corpus with two entries
\* of the same text (the assertion on unprocessed_columns, or the index 1 of
\* the span-1 return out of range), and they leave the header comment and at
\* least one dispatch line written; no column scan finds span 0, nor a span
\* of 1 with several characters.
C6_AbortAfterHeader ==
    gs.pc = "aborted" =>
        \/ /\ error = "assert_empty"
           /\ reserved_word_list = <<>>
           /\ output = <<>>
        \/ /\ error \in {"assert_columns", "index_error"}
           /\ ~DistinctWords
           /\ Len(output) > HeaderLen
           /\ output[1].kind = "comment_open"
           /\ output[HeaderLen].kind = "comment_close"
           /\ output[Len(output)].kind \in {"if_len", "case_len", "if_at", "case_at"}

\* C6's case: the abort at a node with several candidates and no column left.
C6_Witness ==
    /\ gs.pc = "aborted"
    /\ error = "assert_columns"
    /\ Len(output) > HeaderLen + 1

\* the lines the step to the next state writes
Written == SubSeq(output', Len(output) + 1, Len(output'))

AtLeaf == stack # <<>> /\ Top.pc = "entry" /\ Len(Top.reserved_word_list) = 1

\* C7: a node with one candidate, of index i, and n unprocessed columns
\* writes only JSRW_GOT_MATCH(i) when n = 0, only JSRW_TEST_GUESS(i) when
\* n > char_tail_test_threshold, and otherwise an if on the conjunction of the
\* tests of exactly the n unprocessed columns against the word's characters,
\* JSRW_GOT_MATCH(i) inside it, its closing brace and JSRW_NO_MATCH().
C7_LeafLines ==
    [][AtLeaf =>
        LET n == Top.unprocessed_columns
            item == Top.reserved_word_list[1]
            columns == DefaultColumns(Top.columns, n)
            want == {<<columns[k], item.word[columns[k] + 1]>> : k \in 1..n}
            leaf(l, kind, level) ==
                /\ l.kind = kind
                /\ l.ind = level
                /\ l.num = item.index
                /\ l.word = item.word
        IN  IF n = 0
            THEN Len(Written) = 1 /\ leaf(Written[1], "got_match", indent_level)
            ELSE IF n > char_tail_test_threshold
            THEN Len(Written) = 1 /\ leaf(Written[1], "test_guess", indent_level)
            ELSE /\ Len(Written) = 4
                 /\ Written[1].kind = "if_conds"
                 /\ Len(Written[1].conds) = n
                 /\ {<<Written[1].conds[k].column, Written[1].conds[k].ch>> : k \in 1..n} = want
                 /\ leaf(Written[2], "got_match", indent_level + 1)
                 /\ Written[3].kind = "close"
                 /\ Written[4].kind = "no_match"
                 /\ \A q \in {1, 3, 4} : Written[q].ind = indent_level]_vars

\* C7's case: a leaf at the boundary has been written, testing
\* char_tail_test_threshold columns.
C7_Witness ==
    \E q \in 1..Len(output) :
        /\ output[q].kind = "if_conds"
        /\ Len(output[q].conds) = char_tail_test_threshold
        /\ output[q + 1].kind = "got_match"

MinCount == SetMin({ScanAt(k).count : k \in Scanned})

MinSpan == SetMin({ScanAt(k).span : k \in Scanned})

FirstMinCount == SetMin({k \in Scanned : ScanAt(k).count = MinCount})

FirstMinSpan == SetMin({k \in Scanned : ScanAt(k).span = MinSpan})

\* The rule of C8 alone: at a node with several candidates where no
\* unprocessed column has span 1, the column chosen is the first of the
\* fewest distinct characters, in if-chain mode, when they are at most
\* use_if_threshold, and otherwise the first of the smallest span, in switch
\* mode.
C8_SelectionRule ==
    (Dispatched /\ SpanOneIndexes = {}) =>
        IF MinCount <= use_if_threshold
        THEN Top.use_if /\ Top.optimal_column_index = FirstMinCount
        ELSE ~Top.use_if /\ Top.optimal_column_index = FirstMinSpan

\* a node chosen in switch mode where the column of the smallest span is not
\* the column of the fewest distinct characters
C8_RuleWitness ==
    /\ Dispatched
    /\ SpanOneIndexes = {}
    /\ ~Top.use_if
    /\ FirstMinSpan # FirstMinCount

\* C8 as stated: the rule above, and no if-chain column dispatch has more
\* than use_if_threshold branches.
C8_SelectionAndBranches ==
    /\ C8_SelectionRule
    /\ (Dispatched /\ Top.use_if) => Len(Top.list_per_column) <= use_if_threshold

\* C9: during generate_switch the indentation level never drops below its
\* initial value, every call of generate_letter_switch that returns leaves the
\* level at its value on entry, and once generate_switch has returned the
\* level is the initial one.
C9_Indentation ==
    /\ [](/\ indent_level >= initial_indent_level
          /\ gs.pc = "done" => indent_level = initial_indent_level)
    /\ [][(stack # <<>> /\ Len(stack') < Len(stack) /\ gs'.pc # "aborted") =>
             indent_level' = Top.entry_level]_vars

\* C9's case: generation has returned after writing a line four levels deep.
C9_Witness ==
    /\ gs.pc = "done"
    /\ \E q \in 1..Len(output) : output[q].ind >= initial_indent_level + 3

\* the lines from q on are a header comment listing the entries of list, each
\* word with its index
HeaderAt(q, list) ==
    /\ q + Len(list) <= Len(output)
    /\ output[q].kind = "comment_count"
    /\ \A k \in 1..Len(list) :
          /\ output[q + k].kind = "comment_word"
          /\ output[q + k].word = list[k].word
          /\ output[q + k].num = list[k].index

\* C10 as stated: for every node the emitter visits, the output holds a header
\* comment listing every word of the node's candidates with its index.
C10_HeaderPerNode ==
    \A j \in 1..Len(stack) :
        \E q \in 1..Len(output) : HeaderAt(q, stack[j].reserved_word_list)

\* C10 as amended: the output holds one header comment, the first lines
\* generate_switch writes: the number of entries of the whole corpus and the
\* words of its entries in the order of the list, without their indices; the
\* nodes generate_letter_switch visits write no comment line, and an index is
\* written only on a leaf line, beside the word it belongs to.
C10_OneHeader ==
    (gs.pc \notin {"start"} /\ reserved_word_list # <<>>) =>
        /\ Len(output) >= HeaderLen
        /\ output[1].kind = "comment_open"
        /\ output[2].kind = "comment_count"
        /\ output[2].num = Len(reserved_word_list)
        /\ \A k \in 1..Len(reserved_word_list) :
              /\ output[k + 2].kind = "comment_word"
              /\ output[k + 2].word = reserved_word_list[k].word
              /\ output[k + 2].num = NoNum
        /\ output[HeaderLen].kind = "comment_close"
        /\ \A q \in (HeaderLen + 1)..Len(output) :
              /\ ~IsComment(output[q])
              /\ output[q].kind \in {"got_match", "test_guess"} =>
                    \E k \in 1..Len(reserved_word_list) :
                        /\ reserved_word_list[k].index = output[q].num
                        /\ reserved_word_list[k].word = output[q].word

\* C10's case: generation is inside a node two dispatches deep and has
\* written leaves.
C10_Witness ==
    /\ Len(stack) >= 2
    /\ Len(reserved_word_list) >= 3
    /\ \E q \in 1..Len(output) : output[q].kind = "got_match"

\* the three primitives that end the emitted procedure
IsTerminal(l) == l.kind \in {"got_match", "test_guess", "no_match"}

IsIf(l) == l.kind \in {"if_len", "if_at", "if_conds"}

\* the last line of the body of the if opened at line p
IfBodyEnd(out, p) == MatchClose(out, p) - 1

\* the last line of the body of the case label at line q of the switch at line p
CaseBodyEnd(out, p, q) ==
    LET later == {r \in LabelsOf(out, p) : r > q}
    IN  (IF later = {} THEN MatchClose(out, p) ELSE SetMin(later)) - 1

\* every if-branch body and every case body of out is not empty and has a
\* terminating primitive as its last line
BodiesEndTerminated(out) ==
    \A p \in 1..Len(out) :
        /\ IsIf(out[p]) =>
              /\ IfBodyEnd(out, p) > p
              /\ IfBodyEnd(out, p) < Len(out)
              /\ IsTerminal(out[IfBodyEnd(out, p)])
        /\ IsSwitch(out[p]) =>
              /\ MatchClose(out, p) <= Len(out)
              /\ \A q \in LabelsOf(out, p) :
                    /\ CaseBodyEnd(out, p, q) > q
                    /\ IsTerminal(out[CaseBodyEnd(out, p, q)])

\* C11: in a completed output every body of a length case, a character case
\* or an if-branch ends with JSRW_GOT_MATCH, JSRW_TEST_GUESS or JSRW_NO_MATCH;
\* a run of the emitted procedure never arrives at a case label by flowing
\* out of the case body before it, never runs past the last line, and ends
\* once, at a line that is one of the three primitives, with that primitive.
C11_BodiesTerminate ==
    /\ [](/\ (gs.pc = "done" /\ pc = 0) => BodiesEndTerminated(output)
          /\ (pc >= 1 /\ ~Finished) =>
                /\ pc <= Len(output)
                /\ ~IsLabel(output[pc])
          /\ Finished => result.kind \in {"got_match", "test_guess", "no_match"})
    /\ [][result' # result =>
              /\ result = NoResult
              /\ pc <= Len(output)
              /\ IsTerminal(output[pc])
              /\ result'.kind = output[pc].kind]_vars

\* a run that ended on the last line of a case body, the line before the next
\* case label of a switch emitted without break
C11_Witness ==
    /\ Finished
    /\ pc < Len(output)
    /\ IsTerminal(output[pc])
    /\ IsLabel(output[pc + 1])

====
